---- MODULE Spec2Model ----
(***************************************************************************)
(* Meeting-room reservation services: the handlers of the Bookings service *)
(* (bookings_service/app.py) over its bookings table, the handlers of the  *)
(* Reviews service (reviews_service/app.py) over its reviews table, and    *)
(* the RBAC decision functions of both services.                           *)
(***************************************************************************)
EXTENDS Integers, Sequences, FiniteSets, TLC

\* ------------------------------------------------------------------ bounds

\* Rows the bookings table may hold.
MaxBookings == 2
\* Instants are 0..MaxTime.
MaxTime == 2
\* Rows the reviews table may hold.
MaxReviews == 2
\* Rows the users table and the rooms table may hold.
MaxUsers == 2
MaxRooms == 2
\* The rate limiter: largest max_requests and window_seconds, last instant
\* of the clock, and calls let in per key.
MaxRequests == 2
MaxWindow == 2
MaxClock == 4
MaxAccepted == 3

\* ------------------------------------------------------------ vocabulary

\* Python's None for an id (a missing or invalid X-User-Id, a missing
\* owner/target argument, a missing body field). Real ids are >= 1.
None == 0
\* A body field that the body does not carry (or, for start_time and
\* end_time, carries empty).
Absent == -1
\* A start_time/end_time string datetime.fromisoformat cannot parse; a
\* user_id, room_id or rating that int() raises on.
Unparseable == -2

MFA_DELETE_BOOKING_CODE == "123456"

KnownRoles ==
  {"admin", "regular_user", "facility_manager", "moderator", "auditor",
   "service_account"}
\* Role strings: the known roles and one outside the set.
Roles == KnownRoles \cup {"intern"}
\* X-Role header values: a role string, or "" for a request without the header.
RoleHeaders == Roles \cup {""}

BookingActions ==
  {"get_all", "create", "update", "cancel", "user_history", "check_availability"}
ReviewActions == {"create", "update", "delete", "list_room_reviews", "flag"}
\* Action strings handed to the RBAC functions: both tables and one string
\* that is in neither.
ActionStrings == BookingActions \cup ReviewActions \cup {"unknown_action"}

UserIds == 1..2
RoomIds == 1..2
Times == 0..MaxTime
MfaHeaders == {"", "123456", "000000"}

\* The bounds create_review and update_review hold a rating and a comment to.
MIN_RATING == 1
MAX_RATING == 5
MAX_COMMENT_LENGTH == 500

\* The rating a body carries: none, one int() raises on, and the integers at
\* and next to the two bounds.
RatingInputs ==
  {Absent, Unparseable, MIN_RATING - 1, MIN_RATING, MAX_RATING, MAX_RATING + 1}
\* A comment is told by its length once stripped: at the bound, and beyond it.
CommentInputs == {MAX_COMMENT_LENGTH, MAX_COMMENT_LENGTH + 1}

VARIABLES
  bookings,   \* the bookings table: row i is the booking with id i
  req,        \* the request last handled
  resp,       \* the response to it
  inflight,   \* create requests between their conflict query and their commit
  decision,   \* the RBAC decision last evaluated on its own
  reviews,    \* the reviews table: row i is the review with id i
  rooms,      \* the rooms table: a set of rows
  users,      \* the users table: a set of rows
  rate_store, \* the rate limiter's dict: key -> timestamps of the calls let in
  now,        \* time.time() at the rate limiter's last call
  accepted,   \* per key, the times of all the calls ever let in (history)
  limits      \* max_requests and window_seconds the dependencies were built with

vars ==
  <<bookings, req, resp, inflight, decision, reviews, rooms, users,
    rate_store, now, accepted, limits>>

\* What the Flask services (Bookings, Reviews) never touch.
others == <<rooms, users, rate_store, now, accepted, limits>>

\* ---------------------------------------- users, rooms and limiter vocabulary

\* users.role values the Users service is handed.
UserRoles == {"regular_user", "admin", "auditor"}
Usernames == {"ann", "bob", "cy"}
Emails == {"a@x", "b@x", "c@x"}
Passwords == {"pw1", "pw2"}

\* get_password_hash: the stored hash of a password, told apart from it.
get_password_hash(password) == <<"hash", password>>

\* verify_password: TRUE when the hash is the one of the plain password.
verify_password(plain_password, hashed_password) ==
  hashed_password = get_password_hash(plain_password)

User(id, username, email, password, role) ==
  [id |-> id, username |-> username, email |-> email,
   hashed_password |-> get_password_hash(password), role |-> role]

\* The administrator put into the users table when the system is set up.
SeedAdmin == User(1, "ann", "a@x", "pw1", "admin")

\* The keys dependencies are built for.
Keys == {"login", "register"}
\* rate_limiter's arguments: max_requests and window_seconds.
Limits == [max_requests : 0..MaxRequests, window_seconds : 0..MaxWindow]
DefaultLimits == [max_requests |-> 1, window_seconds |-> 1]

\* ------------------------------------------------------------ requests

NoRequest ==
  [op |-> "none", role |-> "", caller |-> None, booking_id |-> None,
   user_id |-> None, room_id |-> None, start_time |-> Absent,
   end_time |-> Absent, mfa |-> "", review_id |-> None, rating |-> Absent,
   comment |-> Absent, key |-> "", username |-> "", email |-> "",
   password |-> "", new_role |-> "", name |-> "", capacity |-> None,
   available |-> ""]

NoResponse == [code |-> 0, error |-> "", body |-> None]

Response(code, error, body) == [code |-> code, error |-> error, body |-> body]

\* POST /bookings: headers and JSON body. The bodies drawn lack at most the
\* end_time field and carry at most an unparseable start_time.
CreateRequests ==
  { [NoRequest EXCEPT !.op = "create", !.role = ro, !.caller = c,
       !.user_id = u, !.room_id = rm, !.start_time = s, !.end_time = e] :
      ro \in RoleHeaders, c \in {None} \cup UserIds, u \in UserIds,
      rm \in RoomIds, s \in Times \cup {Unparseable}, e \in Times \cup {Absent} }

\* PUT /bookings/<id>: every body field is optional.
UpdateRequests ==
  { [NoRequest EXCEPT !.op = "update", !.role = ro, !.caller = c,
       !.booking_id = b, !.room_id = rm, !.start_time = s, !.end_time = e] :
      ro \in RoleHeaders, c \in {None} \cup UserIds, b \in 1..(MaxBookings + 1),
      rm \in {None} \cup RoomIds, s \in {Absent} \cup Times,
      e \in {Absent} \cup Times }

\* DELETE /bookings/<id>
CancelRequests ==
  { [NoRequest EXCEPT !.op = "cancel", !.role = ro, !.caller = c,
       !.booking_id = b, !.mfa = m] :
      ro \in RoleHeaders, c \in {None} \cup UserIds, b \in 1..(MaxBookings + 1),
      m \in MfaHeaders }

\* GET /availability?room_id=&start_time=&end_time=
AvailabilityRequests ==
  { [NoRequest EXCEPT !.op = "availability", !.role = ro, !.room_id = rm,
       !.start_time = s, !.end_time = e] :
      ro \in RoleHeaders, rm \in RoomIds, s \in Times, e \in Times }

\* GET /bookings
GetAllRequests ==
  { [NoRequest EXCEPT !.op = "get_all", !.role = ro, !.caller = c] :
      ro \in RoleHeaders, c \in {None} \cup UserIds }

\* GET /bookings/user/<user_id>
HistoryRequests ==
  { [NoRequest EXCEPT !.op = "user_history", !.role = ro, !.caller = c,
       !.user_id = u] :
      ro \in RoleHeaders, c \in {None} \cup UserIds, u \in UserIds }

\* POST /reviews: headers and JSON body. The bodies drawn carry a user_id, a
\* room_id and a comment, and lack at most the rating.
ReviewCreateRequests ==
  { [NoRequest EXCEPT !.op = "review_create", !.role = ro, !.caller = c,
       !.user_id = u, !.room_id = rm, !.rating = g, !.comment = t] :
      ro \in RoleHeaders, c \in {None} \cup UserIds,
      u \in UserIds \cup {Unparseable}, rm \in RoomIds, g \in RatingInputs,
      t \in CommentInputs }

\* PUT /reviews/<id>: rating and comment are both optional.
ReviewUpdateRequests ==
  { [NoRequest EXCEPT !.op = "review_update", !.role = ro, !.caller = c,
       !.review_id = i, !.rating = g, !.comment = t] :
      ro \in RoleHeaders, c \in {None} \cup UserIds, i \in 1..(MaxReviews + 1),
      g \in RatingInputs, t \in {Absent} \cup CommentInputs }

\* DELETE /reviews/<id>
ReviewDeleteRequests ==
  { [NoRequest EXCEPT !.op = "review_delete", !.role = ro, !.caller = c,
       !.review_id = i] :
      ro \in RoleHeaders, c \in {None} \cup UserIds, i \in 1..(MaxReviews + 1) }

\* POST /reviews/<id>/flag
ReviewFlagRequests ==
  { [NoRequest EXCEPT !.op = "review_flag", !.role = ro, !.caller = c,
       !.review_id = i] :
      ro \in RoleHeaders, c \in {None} \cup UserIds, i \in 1..(MaxReviews + 1) }

\* GET /reviews/room/<room_id>
ReviewListRequests ==
  { [NoRequest EXCEPT !.op = "review_list", !.role = ro, !.room_id = rm] :
      ro \in RoleHeaders, rm \in RoomIds }

\* ---------------------------------------------------------------- RBAC

\* X-Role, "regular_user" when the header is missing.
get_current_role(r) == IF r.role = "" THEN "regular_user" ELSE r.role

\* X-User-Id as an int, None when missing or not a number.
get_current_user_id(r) == r.caller

\* A slip: any X-MFA-Code header passes.
verify_mfa_for_delete_any_code(r) == r.mfa # ""

verify_mfa_for_delete(r) == r.mfa # "" /\ r.mfa = MFA_DELETE_BOOKING_CODE

\* A slip: every unlisted action is allowed instead of denied.
booking_rules_default_allow(r, role, action, booking_owner_id, target_user_id) ==
  IF action = "get_all"
    THEN role \in {"facility_manager", "auditor", "service_account"}
  ELSE IF action = "create"
    THEN role \in {"regular_user", "facility_manager", "moderator"}
  ELSE IF action \in {"update", "cancel"}
    THEN booking_owner_id # None
         /\ role \in {"regular_user", "facility_manager", "moderator"}
         /\ get_current_user_id(r) # None
         /\ get_current_user_id(r) = booking_owner_id
  ELSE IF action = "user_history"
    THEN \/ role \in {"facility_manager", "auditor", "service_account"}
         \/ /\ role \in {"regular_user", "moderator"}
            /\ get_current_user_id(r) # None
            /\ target_user_id # None
            /\ get_current_user_id(r) = target_user_id
  ELSE TRUE

\* A slip: update/cancel ask only for a caller id, not for the owner's.
booking_rules_any_caller(r, role, action, booking_owner_id, target_user_id) ==
  IF action = "get_all"
    THEN role \in {"facility_manager", "auditor", "service_account"}
  ELSE IF action = "create"
    THEN role \in {"regular_user", "facility_manager", "moderator"}
  ELSE IF action \in {"update", "cancel"}
    THEN booking_owner_id # None
         /\ role \in {"regular_user", "facility_manager", "moderator"}
         /\ get_current_user_id(r) # None
  ELSE IF action = "user_history"
    THEN \/ role \in {"facility_manager", "auditor", "service_account"}
         \/ /\ role \in {"regular_user", "moderator"}
            /\ get_current_user_id(r) # None
            /\ target_user_id # None
            /\ get_current_user_id(r) = target_user_id
  ELSE IF action = "check_availability" THEN TRUE
  ELSE FALSE

\* A slip: auditors may create bookings.
booking_rules_auditor_creates(r, role, action, booking_owner_id, target_user_id) ==
  IF action = "get_all"
    THEN role \in {"facility_manager", "auditor", "service_account"}
  ELSE IF action = "create"
    THEN role \in {"regular_user", "facility_manager", "moderator", "auditor"}
  ELSE IF action \in {"update", "cancel"}
    THEN booking_owner_id # None
         /\ role \in {"regular_user", "facility_manager", "moderator"}
         /\ get_current_user_id(r) # None
         /\ get_current_user_id(r) = booking_owner_id
  ELSE IF action = "user_history"
    THEN \/ role \in {"facility_manager", "auditor", "service_account"}
         \/ /\ role \in {"regular_user", "moderator"}
            /\ get_current_user_id(r) # None
            /\ target_user_id # None
            /\ get_current_user_id(r) = target_user_id
  ELSE IF action = "check_availability" THEN TRUE
  ELSE FALSE

\* A slip: a service account may update and cancel its own bookings.
booking_rules_service_account_writes(r, role, action, booking_owner_id, target_user_id) ==
  IF action = "get_all"
    THEN role \in {"facility_manager", "auditor", "service_account"}
  ELSE IF action = "create"
    THEN role \in {"regular_user", "facility_manager", "moderator"}
  ELSE IF action \in {"update", "cancel"}
    THEN booking_owner_id # None
         /\ role \in {"regular_user", "facility_manager", "moderator",
                      "service_account"}
         /\ get_current_user_id(r) # None
         /\ get_current_user_id(r) = booking_owner_id
  ELSE IF action = "user_history"
    THEN \/ role \in {"facility_manager", "auditor", "service_account"}
         \/ /\ role \in {"regular_user", "moderator"}
            /\ get_current_user_id(r) # None
            /\ target_user_id # None
            /\ get_current_user_id(r) = target_user_id
  ELSE IF action = "check_availability" THEN TRUE
  ELSE FALSE

\* A slip: moderators may list all bookings.
booking_rules_moderator_lists(r, role, action, booking_owner_id, target_user_id) ==
  IF action = "get_all"
    THEN role \in {"facility_manager", "moderator", "auditor", "service_account"}
  ELSE IF action = "create"
    THEN role \in {"regular_user", "facility_manager", "moderator"}
  ELSE IF action \in {"update", "cancel"}
    THEN booking_owner_id # None
         /\ role \in {"regular_user", "facility_manager", "moderator"}
         /\ get_current_user_id(r) # None
         /\ get_current_user_id(r) = booking_owner_id
  ELSE IF action = "user_history"
    THEN \/ role \in {"facility_manager", "auditor", "service_account"}
         \/ /\ role \in {"regular_user", "moderator"}
            /\ get_current_user_id(r) # None
            /\ target_user_id # None
            /\ get_current_user_id(r) = target_user_id
  ELSE IF action = "check_availability" THEN TRUE
  ELSE FALSE

\* A slip: a regular user or moderator with a caller id may read any history.
booking_rules_history_any_target(r, role, action, booking_owner_id, target_user_id) ==
  IF action = "get_all"
    THEN role \in {"facility_manager", "auditor", "service_account"}
  ELSE IF action = "create"
    THEN role \in {"regular_user", "facility_manager", "moderator"}
  ELSE IF action \in {"update", "cancel"}
    THEN booking_owner_id # None
         /\ role \in {"regular_user", "facility_manager", "moderator"}
         /\ get_current_user_id(r) # None
         /\ get_current_user_id(r) = booking_owner_id
  ELSE IF action = "user_history"
    THEN \/ role \in {"facility_manager", "auditor", "service_account"}
         \/ /\ role \in {"regular_user", "moderator"}
            /\ get_current_user_id(r) # None
            /\ target_user_id # None
  ELSE IF action = "check_availability" THEN TRUE
  ELSE FALSE

\* can_do_booking_action below its admin override: the per-action rules.
booking_rules(r, role, action, booking_owner_id, target_user_id) ==
  IF action = "get_all"
    THEN role \in {"facility_manager", "auditor", "service_account"}
  ELSE IF action = "create"
    THEN role \in {"regular_user", "facility_manager", "moderator"}
  ELSE IF action \in {"update", "cancel"}
    THEN IF booking_owner_id = None THEN FALSE
         ELSE IF role \in {"regular_user", "facility_manager", "moderator"}
           THEN get_current_user_id(r) # None
                /\ get_current_user_id(r) = booking_owner_id
         ELSE FALSE
  ELSE IF action = "user_history"
    THEN IF role \in {"facility_manager", "auditor", "service_account"} THEN TRUE
         ELSE IF role \in {"regular_user", "moderator"}
           THEN get_current_user_id(r) # None
                /\ target_user_id # None
                /\ get_current_user_id(r) = target_user_id
         ELSE FALSE
  ELSE IF action = "check_availability" THEN TRUE
  ELSE FALSE

\* A slip: the admin override sits inside the table, for its actions only.
can_do_booking_action_admin_listed(r, role, action, booking_owner_id, target_user_id) ==
  IF role = "admin" THEN action \in BookingActions
  ELSE booking_rules(r, role, action, booking_owner_id, target_user_id)

can_do_booking_action(r, role, action, booking_owner_id, target_user_id) ==
  IF role = "admin" THEN TRUE
  ELSE booking_rules(r, role, action, booking_owner_id, target_user_id)

\* A slip: list_room_reviews is open to any role string.
review_rules_list_open(r, role, action, review_owner_id) ==
  IF action = "create" THEN role \in {"regular_user", "facility_manager"}
  ELSE IF action \in {"update", "delete"}
    THEN review_owner_id # None
         /\ \/ role = "moderator"
            \/ /\ role \in {"regular_user", "facility_manager"}
               /\ get_current_user_id(r) # None
               /\ get_current_user_id(r) = review_owner_id
  ELSE IF action = "list_room_reviews" THEN TRUE
  ELSE IF action = "flag" THEN role \in {"admin", "moderator"}
  ELSE FALSE

\* A slip: a moderator may update and delete only reviews of their own.
review_rules_moderator_owner_only(r, role, action, review_owner_id) ==
  IF action = "create" THEN role \in {"regular_user", "facility_manager"}
  ELSE IF action \in {"update", "delete"}
    THEN review_owner_id # None
         /\ \/ /\ role = "moderator"
               /\ get_current_user_id(r) # None
               /\ get_current_user_id(r) = review_owner_id
            \/ /\ role \in {"regular_user", "facility_manager"}
               /\ get_current_user_id(r) # None
               /\ get_current_user_id(r) = review_owner_id
  ELSE IF action = "list_room_reviews"
    THEN role \in {"admin", "regular_user", "facility_manager", "moderator",
                   "auditor", "service_account"}
  ELSE IF action = "flag" THEN role \in {"admin", "moderator"}
  ELSE FALSE

\* A slip: moderators may create reviews.
review_rules_moderator_creates(r, role, action, review_owner_id) ==
  IF action = "create" THEN role \in {"regular_user", "facility_manager", "moderator"}
  ELSE IF action \in {"update", "delete"}
    THEN review_owner_id # None
         /\ \/ role = "moderator"
            \/ /\ role \in {"regular_user", "facility_manager"}
               /\ get_current_user_id(r) # None
               /\ get_current_user_id(r) = review_owner_id
  ELSE IF action = "list_room_reviews"
    THEN role \in {"admin", "regular_user", "facility_manager", "moderator",
                   "auditor", "service_account"}
  ELSE IF action = "flag" THEN role \in {"admin", "moderator"}
  ELSE FALSE

\* A slip: facility managers may flag reviews.
review_rules_facility_manager_flags(r, role, action, review_owner_id) ==
  IF action = "create" THEN role \in {"regular_user", "facility_manager"}
  ELSE IF action \in {"update", "delete"}
    THEN review_owner_id # None
         /\ \/ role = "moderator"
            \/ /\ role \in {"regular_user", "facility_manager"}
               /\ get_current_user_id(r) # None
               /\ get_current_user_id(r) = review_owner_id
  ELSE IF action = "list_room_reviews"
    THEN role \in {"admin", "regular_user", "facility_manager", "moderator",
                   "auditor", "service_account"}
  ELSE IF action = "flag" THEN role \in {"admin", "moderator", "facility_manager"}
  ELSE FALSE

\* can_do_review_action below its admin override: the per-action rules.
review_rules(r, role, action, review_owner_id) ==
  IF action = "create" THEN role \in {"regular_user", "facility_manager"}
  ELSE IF action \in {"update", "delete"}
    THEN IF review_owner_id = None THEN FALSE
         ELSE IF role = "moderator" THEN TRUE
         ELSE IF role \in {"regular_user", "facility_manager"}
           THEN get_current_user_id(r) # None
                /\ get_current_user_id(r) = review_owner_id
         ELSE FALSE
  ELSE IF action = "list_room_reviews"
    THEN role \in {"admin", "regular_user", "facility_manager", "moderator",
                   "auditor", "service_account"}
  ELSE IF action = "flag" THEN role \in {"admin", "moderator"}
  ELSE FALSE

can_do_review_action(r, role, action, review_owner_id) ==
  IF role = "admin" THEN TRUE
  ELSE review_rules(r, role, action, review_owner_id)

\* ------------------------------------------------------- bookings table

Booking(id, user_id, room_id, start_time, end_time) ==
  [id |-> id, user_id |-> user_id, room_id |-> room_id,
   start_time |-> start_time, end_time |-> end_time, status |-> "CONFIRMED",
   created_at |-> id]

\* A slip: <= for <, so that back-to-back bookings conflict.
ConflictQuery_closed_intervals(bks, room_id, start, end) ==
  { i \in 1..Len(bks) :
      /\ bks[i].room_id = room_id
      /\ bks[i].status = "CONFIRMED"
      /\ bks[i].start_time <= end
      /\ bks[i].end_time >= start }

\* A slip: the status filter is left out of the query.
ConflictQuery_any_status(bks, room_id, start, end) ==
  { i \in 1..Len(bks) :
      /\ bks[i].room_id = room_id
      /\ bks[i].start_time < end
      /\ bks[i].end_time > start }

\* A slip: the query looks only for rows that contain the whole proposal.
ConflictQuery_containing(bks, room_id, start, end) ==
  { i \in 1..Len(bks) :
      /\ bks[i].room_id = room_id
      /\ bks[i].status = "CONFIRMED"
      /\ bks[i].start_time <= start
      /\ bks[i].end_time >= end }

\* The rows the conflict query of create_booking / check_availability selects.
ConflictQuery(bks, room_id, start, end) ==
  { i \in 1..Len(bks) :
      /\ bks[i].room_id = room_id
      /\ bks[i].status = "CONFIRMED"
      /\ bks[i].start_time < end
      /\ bks[i].end_time > start }

\* create_booking's loop over the required body fields.
MissingField(r) ==
  \/ r.user_id = None
  \/ r.room_id = None
  \/ r.start_time = Absent
  \/ r.end_time = Absent

\* A slip: the interval of a create request is not validated.
CreatePrecheck_no_interval_check(r) ==
  LET role == get_current_role(r) IN
  IF ~can_do_booking_action(r, role, "create", None, None)
    THEN Response(403, "Forbidden", None)
  ELSE IF MissingField(r)
    THEN Response(400, "Missing field", None)
  ELSE IF role \in {"regular_user", "moderator"}
          /\ (get_current_user_id(r) = None \/ get_current_user_id(r) # r.user_id)
    THEN Response(403, "Users can only create bookings for themselves", None)
  ELSE IF r.start_time = Unparseable \/ r.end_time = Unparseable
    THEN Response(400, "Invalid datetime format. Use ISO format.", None)
  ELSE NoResponse

\* A slip: the required fields are looked for before the role is.
CreatePrecheck_validates_first(r) ==
  LET role == get_current_role(r) IN
  IF MissingField(r)
    THEN Response(400, "Missing field", None)
  ELSE IF ~can_do_booking_action(r, role, "create", None, None)
    THEN Response(403, "Forbidden", None)
  ELSE IF role \in {"regular_user", "moderator"}
          /\ (get_current_user_id(r) = None \/ get_current_user_id(r) # r.user_id)
    THEN Response(403, "Users can only create bookings for themselves", None)
  ELSE IF r.start_time = Unparseable \/ r.end_time = Unparseable
    THEN Response(400, "Invalid datetime format. Use ISO format.", None)
  ELSE IF r.end_time <= r.start_time
    THEN Response(400, "end_time must be after start_time", None)
  ELSE NoResponse

\* The part of create_booking that runs before the database is opened: the
\* response it ends with, or NoResponse when the request goes on to the
\* conflict query.
CreatePrecheck(r) ==
  LET role == get_current_role(r) IN
  IF ~can_do_booking_action(r, role, "create", None, None)
    THEN Response(403, "Forbidden", None)
  ELSE IF MissingField(r)
    THEN Response(400, "Missing field", None)
  ELSE IF role \in {"regular_user", "moderator"}
          /\ (get_current_user_id(r) = None \/ get_current_user_id(r) # r.user_id)
    THEN Response(403, "Users can only create bookings for themselves", None)
  ELSE IF r.start_time = Unparseable \/ r.end_time = Unparseable
    THEN Response(400, "Invalid datetime format. Use ISO format.", None)
  ELSE IF r.end_time <= r.start_time
    THEN Response(400, "end_time must be after start_time", None)
  ELSE NoResponse

\* POST /bookings, run to completion.
create_booking(r) ==
  LET pre == CreatePrecheck(r)
      conflict == ConflictQuery(bookings, r.room_id, r.start_time, r.end_time)
      id == Len(bookings) + 1
  IN
  /\ req' = r
  /\ IF pre # NoResponse
       THEN /\ resp' = pre
            /\ bookings' = bookings
     ELSE IF conflict # {}
       THEN /\ resp' = Response(409, "Room is not available in this time slot", None)
            /\ bookings' = bookings
     ELSE /\ Len(bookings) < MaxBookings
          /\ bookings' = Append(bookings,
                           Booking(id, r.user_id, r.room_id, r.start_time, r.end_time))
          /\ resp' = Response(201, "", id)
  /\ UNCHANGED <<inflight, decision, reviews, others>>

\* A slip: an accepted update writes the default status back.
update_booking_reconfirms(r) ==
  /\ req' = r
  /\ IF r.booking_id \notin 1..Len(bookings)
       THEN /\ resp' = Response(404, "Booking not found", None)
            /\ bookings' = bookings
     ELSE
       LET booking == bookings[r.booking_id]
           room_id == IF r.room_id # None THEN r.room_id ELSE booking.room_id
           start_time == IF r.start_time # Absent THEN r.start_time
                         ELSE booking.start_time
           end_time == IF r.end_time # Absent THEN r.end_time ELSE booking.end_time
       IN
       IF ~can_do_booking_action(r, get_current_role(r), "update",
                                 booking.user_id, None)
         THEN /\ resp' = Response(403, "Forbidden", None)
              /\ bookings' = bookings
       ELSE IF end_time <= start_time
         THEN /\ resp' = Response(400, "end_time must be after start_time", None)
              /\ bookings' = bookings
       ELSE /\ bookings' = [bookings EXCEPT ![r.booking_id] =
                              [booking EXCEPT !.room_id = room_id,
                                              !.start_time = start_time,
                                              !.end_time = end_time,
                                              !.status = "CONFIRMED"]]
            /\ resp' = Response(200, "", r.booking_id)
  /\ UNCHANGED <<inflight, decision, reviews, others>>

\* A slip: the 400 of an update commits what had been assigned.
update_booking_persists_rejected(r) ==
  /\ req' = r
  /\ IF r.booking_id \notin 1..Len(bookings)
       THEN /\ resp' = Response(404, "Booking not found", None)
            /\ bookings' = bookings
     ELSE
       LET booking == bookings[r.booking_id]
           room_id == IF r.room_id # None THEN r.room_id ELSE booking.room_id
           start_time == IF r.start_time # Absent THEN r.start_time
                         ELSE booking.start_time
           end_time == IF r.end_time # Absent THEN r.end_time ELSE booking.end_time
       IN
       IF ~can_do_booking_action(r, get_current_role(r), "update",
                                 booking.user_id, None)
         THEN /\ resp' = Response(403, "Forbidden", None)
              /\ bookings' = bookings
       ELSE IF end_time <= start_time
         THEN /\ resp' = Response(400, "end_time must be after start_time", None)
              /\ bookings' = [bookings EXCEPT ![r.booking_id] =
                                [booking EXCEPT !.room_id = room_id,
                                                !.start_time = start_time,
                                                !.end_time = end_time]]
       ELSE /\ bookings' = [bookings EXCEPT ![r.booking_id] =
                              [booking EXCEPT !.room_id = room_id,
                                              !.start_time = start_time,
                                              !.end_time = end_time]]
            /\ resp' = Response(200, "", r.booking_id)
  /\ UNCHANGED <<inflight, decision, reviews, others>>

\* PUT /bookings/<booking_id>
update_booking(r) ==
  /\ req' = r
  /\ IF r.booking_id \notin 1..Len(bookings)
       THEN /\ resp' = Response(404, "Booking not found", None)
            /\ bookings' = bookings
     ELSE
       LET booking == bookings[r.booking_id]
           room_id == IF r.room_id # None THEN r.room_id ELSE booking.room_id
           start_time == IF r.start_time # Absent THEN r.start_time
                         ELSE booking.start_time
           end_time == IF r.end_time # Absent THEN r.end_time ELSE booking.end_time
       IN
       IF ~can_do_booking_action(r, get_current_role(r), "update",
                                 booking.user_id, None)
         THEN /\ resp' = Response(403, "Forbidden", None)
              /\ bookings' = bookings
       ELSE IF end_time <= start_time
         THEN /\ resp' = Response(400, "end_time must be after start_time", None)
              /\ bookings' = bookings
       ELSE /\ bookings' = [bookings EXCEPT ![r.booking_id] =
                              [booking EXCEPT !.room_id = room_id,
                                              !.start_time = start_time,
                                              !.end_time = end_time]]
            /\ resp' = Response(200, "", r.booking_id)
  /\ UNCHANGED <<inflight, decision, reviews, others>>

\* A slip: a cancel cancels every booking of the owner.
cancel_booking_cancels_owner_bookings(r) ==
  /\ req' = r
  /\ IF r.booking_id \notin 1..Len(bookings)
       THEN /\ resp' = Response(404, "Booking not found", None)
            /\ bookings' = bookings
     ELSE
       LET booking == bookings[r.booking_id] IN
       IF ~can_do_booking_action(r, get_current_role(r), "cancel",
                                 booking.user_id, None)
         THEN /\ resp' = Response(403, "Forbidden", None)
              /\ bookings' = bookings
       ELSE IF ~verify_mfa_for_delete(r)
         THEN /\ resp' = Response(403, "MFA required or invalid code", None)
              /\ bookings' = bookings
       ELSE /\ bookings' = [i \in 1..Len(bookings) |->
                              IF bookings[i].user_id = booking.user_id
                                THEN [bookings[i] EXCEPT !.status = "CANCELLED"]
                                ELSE bookings[i]]
            /\ resp' = Response(200, "Booking cancelled", None)
  /\ UNCHANGED <<inflight, decision, reviews, others>>

\* DELETE /bookings/<booking_id>
cancel_booking(r) ==
  /\ req' = r
  /\ IF r.booking_id \notin 1..Len(bookings)
       THEN /\ resp' = Response(404, "Booking not found", None)
            /\ bookings' = bookings
     ELSE
       LET booking == bookings[r.booking_id] IN
       IF ~can_do_booking_action(r, get_current_role(r), "cancel",
                                 booking.user_id, None)
         THEN /\ resp' = Response(403, "Forbidden", None)
              /\ bookings' = bookings
       ELSE IF ~verify_mfa_for_delete(r)
         THEN /\ resp' = Response(403, "MFA required or invalid code", None)
              /\ bookings' = bookings
       ELSE /\ bookings' = [bookings EXCEPT ![r.booking_id].status = "CANCELLED"]
            /\ resp' = Response(200, "Booking cancelled", None)
  /\ UNCHANGED <<inflight, decision, reviews, others>>

\* A slip: the availability query leaves the status filter out.
check_availability_any_status(r) ==
  LET conflict == ConflictQuery_any_status(bookings, r.room_id, r.start_time, r.end_time) IN
  /\ req' = r
  /\ resp' =
       IF ~can_do_booking_action(r, get_current_role(r), "check_availability",
                                 None, None)
         THEN Response(403, "Forbidden", None)
       ELSE IF r.end_time <= r.start_time
         THEN Response(400, "end_time must be after start_time", None)
       ELSE Response(200, "", conflict = {})
  /\ UNCHANGED <<bookings, inflight, decision, reviews, others>>

\* GET /availability
check_availability(r) ==
  LET conflict == ConflictQuery(bookings, r.room_id, r.start_time, r.end_time) IN
  /\ req' = r
  /\ resp' =
       IF ~can_do_booking_action(r, get_current_role(r), "check_availability",
                                 None, None)
         THEN Response(403, "Forbidden", None)
       ELSE IF r.end_time <= r.start_time
         THEN Response(400, "end_time must be after start_time", None)
       ELSE Response(200, "", conflict = {})
  /\ UNCHANGED <<bookings, inflight, decision, reviews, others>>

\* GET /bookings: db.query(Booking).all(), every row whatever its status, in
\* primary-key order.
get_all_bookings(r) ==
  /\ req' = r
  /\ resp' =
       IF ~can_do_booking_action(r, get_current_role(r), "get_all", None, None)
         THEN Response(403, "Forbidden", None)
       ELSE Response(200, "", bookings)
  /\ UNCHANGED <<bookings, inflight, decision, reviews, others>>

\* A slip: the history query keeps only CONFIRMED rows.
HistoryQuery_confirmed_only(bks, user_id) ==
  { i \in 1..Len(bks) : bks[i].user_id = user_id /\ bks[i].status = "CONFIRMED" }

\* The rows the query of get_user_booking_history selects.
HistoryQuery(bks, user_id) == { i \in 1..Len(bks) : bks[i].user_id = user_id }

\* order_by(Booking.start_time.desc()): the orders the rows ids may come back
\* in; rows with equal start_time come back in either order.
OrderedByStartDesc(bks, ids) ==
  { o \in [1..Cardinality(ids) -> ids] :
      \A i, j \in 1..Cardinality(ids) :
        i < j => o[i] # o[j] /\ bks[o[i]].start_time >= bks[o[j]].start_time }

\* The JSON object get_user_booking_history builds for one row.
HistoryRow(b) ==
  [id |-> b.id, room_id |-> b.room_id, start_time |-> b.start_time,
   end_time |-> b.end_time, status |-> b.status]

\* GET /bookings/user/<user_id>
get_user_booking_history(r) ==
  /\ req' = r
  /\ IF ~can_do_booking_action(r, get_current_role(r), "user_history", None,
                               r.user_id)
       THEN resp' = Response(403, "Forbidden", None)
     ELSE \E o \in OrderedByStartDesc(bookings, HistoryQuery(bookings, r.user_id)) :
            resp' = Response(200, "", [k \in DOMAIN o |-> HistoryRow(bookings[o[k]])])
  /\ UNCHANGED <<bookings, inflight, decision, reviews, others>>

\* ------------------------------------------------------------------ specs

Workers == 1..2

Idle == [pc |-> "idle", r |-> NoRequest, conflict |-> FALSE, seen |-> 0]

NoDecision ==
  [domain |-> "none", role |-> "", action |-> "", caller |-> None,
   owner |-> None, target |-> None, allowed |-> FALSE]

\* The tables as created, with the seeded administrator in the users table,
\* and the rate limiter's store empty, its dependencies built with l.
Start(l) ==
  /\ bookings = <<>>
  /\ req = NoRequest
  /\ resp = NoResponse
  /\ inflight = [w \in Workers |-> Idle]
  /\ decision = NoDecision
  /\ reviews = <<>>
  /\ rooms = {}
  /\ users = {SeedAdmin}
  /\ rate_store = [k \in {} |-> <<>>]
  /\ now = 0
  /\ accepted = [k \in Keys |-> <<>>]
  /\ limits = l

Init == Start(DefaultLimits)

\* The service takes the next request once the last response has gone out.
CreateBooking ==
  /\ req = NoRequest
  /\ \E r \in CreateRequests : create_booking(r)

UpdateBooking ==
  /\ req = NoRequest
  /\ \E r \in UpdateRequests : update_booking(r)

CancelBooking ==
  /\ req = NoRequest
  /\ \E r \in CancelRequests : cancel_booking(r)

CheckAvailability ==
  /\ req = NoRequest
  /\ \E r \in AvailabilityRequests : check_availability(r)

GetAllBookings ==
  /\ req = NoRequest
  /\ \E r \in GetAllRequests : get_all_bookings(r)

GetUserBookingHistory ==
  /\ req = NoRequest
  /\ \E r \in HistoryRequests : get_user_booking_history(r)

\* The response has gone out and the request context is torn down: the
\* service is ready for the next request.
Respond ==
  /\ req # NoRequest
  /\ req' = NoRequest
  /\ resp' = NoResponse
  /\ UNCHANGED <<bookings, inflight, decision, reviews, others>>

Next ==
  \/ CreateBooking
  \/ UpdateBooking
  \/ CancelBooking
  \/ CheckAvailability
  \/ GetAllBookings
  \/ GetUserBookingHistory
  \/ Respond

\* The Bookings service handling one request at a time.
Spec == Init /\ [][Next]_vars

\* ------------------------------------------- claims on the Bookings service

\* Half-open intervals [s1,e1) and [s2,e2) overlap.
Overlap(s1, e1, s2, e2) == s1 < e2 /\ s2 < e1

\* Rows of bks, other than row skip, that are CONFIRMED, in room_id, and
\* overlap [start, end).
ConfirmedOverlapping(bks, room_id, start, end, skip) ==
  { i \in 1..Len(bks) \ {skip} :
      /\ bks[i].status = "CONFIRMED"
      /\ bks[i].room_id = room_id
      /\ Overlap(bks[i].start_time, bks[i].end_time, start, end) }

\* A request is being handled in this step.
Handles(ops) == req = NoRequest /\ req'.op \in ops

\* C1: no two stored CONFIRMED bookings of one room overlap.
C1_NoOverlappingConfirmed ==
  \A i, j \in 1..Len(bookings) :
    (/\ i # j
     /\ bookings[i].room_id = bookings[j].room_id
     /\ bookings[i].status = "CONFIRMED"
     /\ bookings[j].status = "CONFIRMED")
      => ~Overlap(bookings[i].start_time, bookings[i].end_time,
                  bookings[j].start_time, bookings[j].end_time)

\* C2: a create request that is not turned away with 400 or 403 gets 409 and
\* stores nothing iff a stored CONFIRMED booking of the room overlaps the
\* proposed interval; otherwise it gets 201 and one CONFIRMED booking with
\* the request's user, room and interval is added.
C2_CreateConflictRule ==
  [][ (Handles({"create"}) /\ resp'.code \notin {400, 403}) =>
        IF ConfirmedOverlapping(bookings, req'.room_id, req'.start_time,
                                req'.end_time, None) # {}
          THEN resp'.code = 409 /\ bookings' = bookings
          ELSE /\ resp'.code = 201
               /\ Len(bookings') = Len(bookings) + 1
               /\ SubSeq(bookings', 1, Len(bookings)) = bookings
               /\ LET b == bookings'[Len(bookings')] IN
                    /\ b.status = "CONFIRMED"
                    /\ b.user_id = req'.user_id
                    /\ b.room_id = req'.room_id
                    /\ b.start_time = req'.start_time
                    /\ b.end_time = req'.end_time ]_vars

\* A booking that starts exactly where a CONFIRMED booking of the same room
\* ends has been accepted.
C2_Witness ==
  /\ req.op = "create"
  /\ resp.code = 201
  /\ Len(bookings) = 2
  /\ bookings[1].status = "CONFIRMED"
  /\ bookings[1].room_id = bookings[2].room_id
  /\ bookings[2].start_time = bookings[1].end_time

\* C3: an update of an existing booking that passes RBAC gets 409, and leaves
\* the table unchanged, iff the booking's resulting room and interval overlap
\* a CONFIRMED booking of that room other than the booking itself.
C3_UpdateConflictRejected ==
  [][ (/\ Handles({"update"})
       /\ req'.booking_id \in 1..Len(bookings)
       /\ resp'.code # 403) =>
        LET old == bookings[req'.booking_id]
            room_id == IF req'.room_id # None THEN req'.room_id ELSE old.room_id
            start == IF req'.start_time # Absent THEN req'.start_time
                     ELSE old.start_time
            end == IF req'.end_time # Absent THEN req'.end_time ELSE old.end_time
        IN (ConfirmedOverlapping(bookings, room_id, start, end,
                                 req'.booking_id) # {})
             <=> (resp'.code = 409 /\ bookings' = bookings) ]_vars

\* C4: a create request or an availability check for a valid interval that
\* overlaps bookings of the room, all of them CANCELLED, is not answered 409:
\* the availability check reports true, and the create request, unless it is
\* turned away with 400 or 403, stores the booking.
C4_CancelledNeverConflicts ==
  [][ (/\ Handles({"create", "availability"})
       /\ req'.start_time \in Times
       /\ req'.end_time \in Times
       /\ req'.end_time > req'.start_time
       /\ \E i \in 1..Len(bookings) :
            /\ bookings[i].room_id = req'.room_id
            /\ Overlap(bookings[i].start_time, bookings[i].end_time,
                       req'.start_time, req'.end_time)
       /\ \A i \in 1..Len(bookings) :
            (/\ bookings[i].room_id = req'.room_id
             /\ Overlap(bookings[i].start_time, bookings[i].end_time,
                        req'.start_time, req'.end_time))
              => bookings[i].status = "CANCELLED") =>
        /\ resp'.code # 409
        /\ req'.op = "availability" =>
             resp'.code = 200 /\ resp'.body = TRUE
        /\ (req'.op = "create" /\ resp'.code \notin {400, 403}) =>
             resp'.code = 201 /\ Len(bookings') = Len(bookings) + 1 ]_vars

\* A booking has been created over the very interval of a CANCELLED booking
\* of the same room.
C4_Witness ==
  /\ req.op = "create"
  /\ resp.code = 201
  /\ Len(bookings) = 2
  /\ bookings[1].status = "CANCELLED"
  /\ bookings[2].room_id = bookings[1].room_id
  /\ bookings[2].start_time = bookings[1].start_time
  /\ bookings[2].end_time = bookings[1].end_time

\* The caller's id is present and is the id in the body.
ForSelf(r) == r.caller # None /\ r.caller = r.user_id

C11_AdminCancelsWithRoleAndUserHeaders ==
  [][ (/\ Handles({"cancel"})
       /\ req'.role = "admin"
       /\ req'.mfa = ""
       /\ req'.booking_id \in 1..Len(bookings)) =>
        /\ resp'.code = 200
        /\ resp'.error = "Booking cancelled"
        /\ bookings'[req'.booking_id].status = "CANCELLED" ]_vars

\* C12: no create, update or cancel request with role auditor or
\* service_account succeeds, and none changes the bookings table; such a
\* cancel of an existing booking is answered 403.
C12_AuditorServiceAccountReadOnly ==
  [][ (/\ Handles({"create", "update", "cancel"})
       /\ get_current_role(req') \in {"auditor", "service_account"}) =>
        /\ resp'.code \notin {200, 201}
        /\ bookings' = bookings
        /\ (req'.op = "cancel" /\ req'.booking_id \in 1..Len(bookings))
             => resp'.code = 403 ]_vars

\* An auditor whose caller id is the owner's, with the right MFA code, has
\* asked to cancel a booking: 403, and the booking is still CONFIRMED.
C12_Witness ==
  /\ req.op = "cancel"
  /\ req.role = "auditor"
  /\ req.booking_id \in 1..Len(bookings)
  /\ req.caller = bookings[req.booking_id].user_id
  /\ req.mfa = MFA_DELETE_BOOKING_CODE
  /\ resp.code = 403
  /\ bookings[req.booking_id].status = "CONFIRMED"

\* C13: GET /bookings is answered 200 iff the role is admin,
\* facility_manager, auditor or service_account; every other role
\* (regular_user, moderator, an unknown role) is answered 403 "Forbidden".
C13_GetAllAuthorization ==
  req.op = "get_all" =>
    IF get_current_role(req) \in
         {"admin", "facility_manager", "auditor", "service_account"}
      THEN resp.code = 200
      ELSE resp.code = 403 /\ resp.error = "Forbidden"

\* A moderator has asked for the list of a table that holds a booking: 403.
C13_Witness ==
  /\ req.op = "get_all"
  /\ req.role = "moderator"
  /\ Len(bookings) > 0
  /\ resp.code = 403
  /\ resp.error = "Forbidden"

C18_ListingsHideCancelled ==
  (req.op \in {"get_all", "user_history"} /\ resp.code = 200) =>
    \A k \in DOMAIN resp.body : bookings[resp.body[k].id].status # "CANCELLED"

\* C18, amended: both listings show bookings of every status. GET /bookings
\* returns every stored booking, and GET /bookings/user/<user_id> returns
\* every stored booking of that user once each, a cancelled booking included,
\* each with its stored status.
C18_ListingsShowEveryStatus ==
  /\ (req.op = "get_all" /\ resp.code = 200) => resp.body = bookings
  /\ (req.op = "user_history" /\ resp.code = 200) =>
       LET body == resp.body
           mine == { i \in 1..Len(bookings) : bookings[i].user_id = req.user_id }
       IN /\ { body[k].id : k \in DOMAIN body } = mine
          /\ Len(body) = Cardinality(mine)
          /\ \A k \in DOMAIN body : body[k].status = bookings[body[k].id].status

\* A user's history has come back with a CANCELLED booking in it, next to a
\* CONFIRMED one.
C18_Witness ==
  /\ req.op = "user_history"
  /\ resp.code = 200
  /\ \E k \in DOMAIN resp.body : resp.body[k].status = "CANCELLED"
  /\ \E k \in DOMAIN resp.body : resp.body[k].status = "CONFIRMED"

\* C20: once a booking's status is CANCELLED no request sets it back: in
\* every step a CANCELLED booking is still stored and still CANCELLED.
C20_CancellationPermanent ==
  [][ \A i \in 1..Len(bookings) :
        bookings[i].status = "CANCELLED" =>
          i <= Len(bookings') /\ bookings'[i].status = "CANCELLED" ]_vars

\* An update of a CANCELLED booking has been accepted, and the booking is
\* still CANCELLED.
C20_Witness ==
  /\ req.op = "update"
  /\ resp.code = 200
  /\ req.start_time # Absent
  /\ bookings[req.booking_id].status = "CANCELLED"
  /\ bookings[req.booking_id].start_time = req.start_time

\* C21: every stored booking has end_time > start_time (create answers 400
\* before storing, update answers 400 without committing).
C21_PersistedIntervalsValid ==
  \A i \in 1..Len(bookings) : bookings[i].end_time > bookings[i].start_time

\* An update that would have put a booking's end at or before its start has
\* been answered 400, and the booking still has its interval.
C21_Witness ==
  /\ req.op = "update"
  /\ resp.code = 400
  /\ req.end_time # Absent
  /\ req.start_time = Absent
  /\ req.end_time <= bookings[req.booking_id].start_time
  /\ bookings[req.booking_id].end_time > bookings[req.booking_id].start_time

\* C22: no step removes a booking or changes its id, user_id or created_at;
\* an update changes at most room_id, start_time and end_time of the booking
\* it names, a cancel at most the status of the booking it names, and both
\* leave every other booking as it was.
C22_IdentityAndFrame ==
  [][ /\ \A i \in 1..Len(bookings) :
           /\ i <= Len(bookings')
           /\ bookings'[i].id = bookings[i].id
           /\ bookings'[i].user_id = bookings[i].user_id
           /\ bookings'[i].created_at = bookings[i].created_at
      /\ Handles({"update", "cancel"}) =>
           /\ Len(bookings') = Len(bookings)
           /\ \A i \in 1..Len(bookings) :
                IF i # req'.booking_id THEN bookings'[i] = bookings[i]
                ELSE IF req'.op = "update"
                  THEN bookings'[i].status = bookings[i].status
                ELSE bookings'[i] = [bookings[i] EXCEPT !.status = bookings'[i].status]
    ]_vars

\* An admin who is not the owner has moved a booking to another room while
\* the table holds a second booking.
C22_Witness ==
  /\ req.op = "update"
  /\ resp.code = 200
  /\ Len(bookings) = 2
  /\ req.room_id # None
  /\ bookings[req.booking_id].room_id = req.room_id
  /\ bookings[req.booking_id].user_id # req.caller
  /\ \E i \in 1..2 : bookings[i].room_id # req.room_id

\* The role and caller id of request r pass the RBAC rule of update and
\* cancel for a booking owned by owner.
MayWrite(r, owner) ==
  \/ get_current_role(r) = "admin"
  \/ /\ get_current_role(r) \in {"regular_user", "facility_manager", "moderator"}
     /\ r.caller # None
     /\ r.caller = owner

C28_RejectedLeavesStoreUnchanged ==
  [][ (/\ Handles({"create", "update", "cancel"})
       /\ resp'.code \in {400, 403, 404, 409}) => bookings' = bookings ]_vars

\* An update that named a new room and an end at or before the start has
\* been answered 400, and the booking is not in that room.
C28_Witness ==
  /\ req.op = "update"
  /\ resp.code = 400
  /\ req.room_id # None
  /\ req.start_time # Absent
  /\ bookings[req.booking_id].room_id # req.room_id
  /\ bookings[req.booking_id].start_time # req.start_time

\* The create requests for a room and interval that pass every check of
\* create_booking before its conflict query.
CreatesFor(room_id, start, end) ==
  { c \in { [NoRequest EXCEPT !.op = "create", !.role = ro, !.caller = u,
               !.user_id = u, !.room_id = room_id, !.start_time = start,
               !.end_time = end] : ro \in RoleHeaders, u \in UserIds } :
      CreatePrecheck(c) = NoResponse }

\* C29: an availability check changes nothing, and for an interval with
\* end > start it reports true iff no create request for that room and
\* interval by a permitted caller could be answered 409 in this state.
C29_AvailabilityAgreesWithCreate ==
  [][ Handles({"availability"}) =>
        /\ bookings' = bookings
        /\ req'.end_time > req'.start_time =>
             /\ resp'.code = 200
             /\ CreatesFor(req'.room_id, req'.start_time, req'.end_time) # {}
             /\ \A c \in CreatesFor(req'.room_id, req'.start_time, req'.end_time) :
                  resp'.body = ~ENABLED (create_booking(c) /\ resp'.code = 409)
    ]_vars

\* A room has been reported unavailable for an interval that overlaps a
\* CONFIRMED booking, while a CANCELLED booking is stored too.
C29_Witness ==
  /\ req.op = "availability"
  /\ resp.code = 200
  /\ resp.body = FALSE
  /\ \E i \in 1..Len(bookings) : bookings[i].status = "CANCELLED"

\* ------------------------------------- create requests running concurrently

\* The create requests the concurrent workers are handed: a regular user's,
\* for self or not, for any room and any pair of instants.
RaceRequests ==
  { r \in CreateRequests :
      /\ r.role = "regular_user"
      /\ r.caller # None
      /\ r.start_time \in Times
      /\ r.end_time \in Times }

\* Workers that have run their conflict query and not yet committed.
Queried == { w \in Workers : inflight[w].pc = "queried" }

\* Worker w takes a create request and runs create_booking up to and
\* including its conflict query; a request turned away before the query is
\* answered at once. seen records how many rows the table held at the query.
BeginCreate(w) ==
  /\ inflight[w].pc = "idle"
  /\ Len(bookings) + Cardinality(Queried) < MaxBookings
  /\ \E r \in RaceRequests :
       LET pre == CreatePrecheck(r)
           conflict == ConflictQuery(bookings, r.room_id, r.start_time, r.end_time)
       IN IF pre # NoResponse
            THEN /\ resp' = pre
                 /\ UNCHANGED inflight
            ELSE /\ inflight' = [inflight EXCEPT ![w] =
                                   [pc |-> "queried", r |-> r,
                                    conflict |-> (conflict # {}),
                                    seen |-> Len(bookings)]]
                 /\ UNCHANGED resp
  /\ UNCHANGED <<bookings, req, decision, reviews, others>>

\* Worker w goes on from its query result: 409, or insert and commit.
FinishCreate(w) ==
  LET r == inflight[w].r
      id == Len(bookings) + 1
  IN
  /\ inflight[w].pc = "queried"
  /\ IF inflight[w].conflict
       THEN /\ resp' = Response(409, "Room is not available in this time slot", None)
            /\ bookings' = bookings
       ELSE /\ bookings' = Append(bookings,
                             Booking(id, r.user_id, r.room_id, r.start_time, r.end_time))
            /\ resp' = Response(201, "", id)
  /\ inflight' = [inflight EXCEPT ![w] = Idle]
  /\ UNCHANGED <<req, decision, reviews, others>>

NextRace == \E w \in Workers : BeginCreate(w) \/ FinishCreate(w)

\* The Bookings service running two create requests at a time, each a
\* conflict query followed, in a later step, by the insert and commit.
SpecRace == Init /\ [][NextRace]_vars

\* C5: under interleaving two overlapping CONFIRMED bookings of one room can
\* both be committed, and only under interleaving: whenever a commit adds a
\* booking that overlaps a CONFIRMED booking of its room, that booking was
\* committed after the committing request had run its conflict query (so
\* requests that run one after the other never store an overlap).
C5_OverlapOnlyByInterleaving ==
  [][ \A w \in Workers :
        (/\ inflight[w].pc = "queried"
         /\ inflight'[w].pc = "idle"
         /\ Len(bookings') = Len(bookings) + 1) =>
          LET b == bookings'[Len(bookings')] IN
          \A i \in ConfirmedOverlapping(bookings, b.room_id, b.start_time,
                                        b.end_time, None) :
            i > inflight[w].seen ]_vars

\* Two overlapping CONFIRMED bookings of one room are stored.
C5_Witness ==
  \E i, j \in 1..Len(bookings) :
    /\ i # j
    /\ bookings[i].room_id = bookings[j].room_id
    /\ bookings[i].status = "CONFIRMED"
    /\ bookings[j].status = "CONFIRMED"
    /\ Overlap(bookings[i].start_time, bookings[i].end_time,
               bookings[j].start_time, bookings[j].end_time)

\* --------------------------------------------- the RBAC functions alone

\* can_do_booking_action applied to one role, action and context: the
\* caller id the request carries, the owner and the target arguments.
DecideBooking ==
  \E role \in Roles, action \in ActionStrings, c \in {None} \cup UserIds,
     owner \in {None} \cup UserIds, target \in {None} \cup UserIds :
    /\ decision' =
         [domain |-> "bookings", role |-> role, action |-> action,
          caller |-> c, owner |-> owner, target |-> target,
          allowed |-> can_do_booking_action([NoRequest EXCEPT !.caller = c],
                                            role, action, owner, target)]
    /\ UNCHANGED <<bookings, req, resp, inflight, reviews, others>>

\* can_do_review_action applied to one role, action and context.
DecideReview ==
  \E role \in Roles, action \in ActionStrings, c \in {None} \cup UserIds,
     owner \in {None} \cup UserIds :
    /\ decision' =
         [domain |-> "reviews", role |-> role, action |-> action,
          caller |-> c, owner |-> owner, target |-> None,
          allowed |-> can_do_review_action([NoRequest EXCEPT !.caller = c],
                                           role, action, owner)]
    /\ UNCHANGED <<bookings, req, resp, inflight, reviews, others>>

NextRbac ==
  \/ DecideBooking
  \/ DecideReview

SpecRbac == Init /\ [][NextRbac]_vars

\* The action table of a domain.
TableOf(domain) ==
  IF domain = "bookings" THEN BookingActions
  ELSE IF domain = "reviews" THEN ReviewActions
  ELSE {}

\* C6: admin override. Whatever the action string (listed or not) and
\* whatever the context, both RBAC functions allow role "admin".
C6_AdminOverride ==
  (decision.domain # "none" /\ decision.role = "admin") => decision.allowed = TRUE

\* Admin is allowed an action string of neither table, by the reviews
\* function, with no owner and no caller id.
C6_Witness ==
  /\ decision.domain = "reviews"
  /\ decision.role = "admin"
  /\ decision.action = "unknown_action"
  /\ decision.owner = None
  /\ decision.caller = None
  /\ decision.allowed = TRUE

\* C7 as stated: an action string outside the domain's table is denied for
\* every role, admin included.
C7_UnknownActionDeniedForEveryRole ==
  (decision.domain # "none" /\ decision.action \notin TableOf(decision.domain))
    => decision.allowed = FALSE

\* C7, amended: an action string outside the domain's table is denied for
\* every role other than admin, whatever the context.
C7_UnknownActionDeniedUnlessAdmin ==
  (/\ decision.domain # "none"
   /\ decision.action \notin TableOf(decision.domain)
   /\ decision.role # "admin")
    => decision.allowed = FALSE

\* A regular user who owns the object asks the bookings function for an
\* unlisted action and is denied.
C7_Witness ==
  /\ decision.domain = "bookings"
  /\ decision.role = "regular_user"
  /\ decision.action = "unknown_action"
  /\ decision.caller = 1
  /\ decision.owner = 1
  /\ decision.allowed = FALSE

\* C8 as stated: a role outside the known set is denied every action by
\* both functions.
C8_UnknownRoleDeniedEveryAction ==
  (decision.domain # "none" /\ decision.role \notin KnownRoles)
    => decision.allowed = FALSE

\* C8, amended: a role outside the known set gets a Boolean answer for every
\* action and context (the functions do not raise), and the answer is false
\* for every action except the bookings action check_availability.
C8_UnknownRoleDeniedButAvailability ==
  (decision.domain # "none" /\ decision.role \notin KnownRoles)
    => /\ decision.allowed \in BOOLEAN
       /\ ~(decision.domain = "bookings" /\ decision.action = "check_availability")
            => decision.allowed = FALSE

\* An unknown role is denied list_room_reviews, the listed read-only action
\* of the reviews table.
C8_Witness ==
  /\ decision.domain = "reviews"
  /\ decision.role = "intern"
  /\ decision.action = "list_room_reviews"
  /\ decision.allowed = FALSE

\* ------------------------------------------------------ reviews table

Review(id, user_id, room_id, rating, comment) ==
  [id |-> id, user_id |-> user_id, room_id |-> room_id, rating |-> rating,
   comment |-> comment, status |-> "ACTIVE", is_flagged |-> FALSE,
   created_at |-> id]

\* A slip: the lookup takes a DELETED row for a row that is there.
ReviewNotFound_ignoring_status(rvs, review_id) == review_id \notin 1..Len(rvs)

\* "not review or review.status == 'DELETED'": the lookup by id that
\* update_review, delete_review and flag_review start with.
ReviewNotFound(rvs, review_id) ==
  \/ review_id \notin 1..Len(rvs)
  \/ rvs[review_id].status = "DELETED"

\* create_review's loop over the required body fields.
ReviewMissingField(r) ==
  \/ r.user_id = None
  \/ r.room_id = None
  \/ r.rating = Absent

\* The length of the comment of a body, "" when the body carries none.
CommentLength(r) == IF r.comment = Absent THEN 0 ELSE r.comment

\* POST /reviews
create_review(r) ==
  LET role == get_current_role(r)
      id == Len(reviews) + 1
      rejected ==
        IF ~can_do_review_action(r, role, "create", None)
          THEN Response(403, "Forbidden", None)
        ELSE IF ReviewMissingField(r)
          THEN Response(400, "Missing field", None)
        ELSE IF r.user_id = Unparseable \/ r.room_id = Unparseable
          THEN Response(400, "user_id and room_id must be integers", None)
        ELSE IF role \in {"regular_user", "facility_manager"}
                /\ (get_current_user_id(r) = None
                    \/ get_current_user_id(r) # r.user_id)
          THEN Response(403, "Users can only create reviews for themselves", None)
        ELSE IF r.rating = Unparseable
          THEN Response(400, "rating must be an integer", None)
        ELSE IF r.rating < MIN_RATING \/ r.rating > MAX_RATING
          THEN Response(400, "rating must be between 1 and 5", None)
        ELSE IF CommentLength(r) > MAX_COMMENT_LENGTH
          THEN Response(400, "comment is too long", None)
        ELSE NoResponse
  IN
  /\ req' = r
  /\ IF rejected # NoResponse
       THEN /\ resp' = rejected
            /\ reviews' = reviews
     ELSE /\ Len(reviews) < MaxReviews
          /\ reviews' = Append(reviews,
                          Review(id, r.user_id, r.room_id, r.rating, r.comment))
          /\ resp' = Response(201, "", id)
  /\ UNCHANGED <<bookings, inflight, decision, others>>

\* PUT /reviews/<review_id>. A 400 after the rating has been assigned leaves
\* the row as it was: the session is closed without a commit.
update_review(r) ==
  /\ req' = r
  /\ IF ReviewNotFound(reviews, r.review_id)
       THEN /\ resp' = Response(404, "Review not found", None)
            /\ reviews' = reviews
     ELSE
       LET review == reviews[r.review_id]
           rating == IF r.rating # Absent THEN r.rating ELSE review.rating
           comment == IF r.comment # Absent THEN r.comment ELSE review.comment
       IN
       IF ~can_do_review_action(r, get_current_role(r), "update", review.user_id)
         THEN /\ resp' = Response(403, "Forbidden", None)
              /\ reviews' = reviews
       ELSE IF r.rating # Absent /\ r.rating = Unparseable
         THEN /\ resp' = Response(400, "rating must be an integer", None)
              /\ reviews' = reviews
       ELSE IF r.rating # Absent /\ (r.rating < MIN_RATING \/ r.rating > MAX_RATING)
         THEN /\ resp' = Response(400, "rating must be between 1 and 5", None)
              /\ reviews' = reviews
       ELSE IF r.comment # Absent /\ CommentLength(r) > MAX_COMMENT_LENGTH
         THEN /\ resp' = Response(400, "comment is too long", None)
              /\ reviews' = reviews
       ELSE /\ reviews' = [reviews EXCEPT ![r.review_id] =
                             [review EXCEPT !.rating = rating,
                                            !.comment = comment]]
            /\ resp' = Response(200, "", r.review_id)
  /\ UNCHANGED <<bookings, inflight, decision, others>>

\* DELETE /reviews/<review_id>: a soft delete.
delete_review(r) ==
  /\ req' = r
  /\ IF ReviewNotFound(reviews, r.review_id)
       THEN /\ resp' = Response(404, "Review not found", None)
            /\ reviews' = reviews
     ELSE IF ~can_do_review_action(r, get_current_role(r), "delete",
                                   reviews[r.review_id].user_id)
       THEN /\ resp' = Response(403, "Forbidden", None)
            /\ reviews' = reviews
     ELSE /\ reviews' = [reviews EXCEPT ![r.review_id].status = "DELETED"]
          /\ resp' = Response(200, "Review deleted", None)
  /\ UNCHANGED <<bookings, inflight, decision, others>>

\* The ids get_reviews_for_room returns, in its order: the ACTIVE rows of the
\* room, created_at descending (the later row has the later created_at).
RoomReviewIds(rvs, room_id, n) ==
  LET RECURSIVE Desc(_)
      Desc(i) ==
        IF i = 0 THEN <<>>
        ELSE IF rvs[i].room_id = room_id /\ rvs[i].status = "ACTIVE"
          THEN <<i>> \o Desc(i - 1)
        ELSE Desc(i - 1)
  IN Desc(n)

\* GET /reviews/room/<room_id>
get_reviews_for_room(r) ==
  LET ids == RoomReviewIds(reviews, r.room_id, Len(reviews)) IN
  /\ req' = r
  /\ resp' =
       IF ~can_do_review_action(r, get_current_role(r), "list_room_reviews", None)
         THEN Response(403, "Forbidden", None)
       ELSE Response(200, "", [k \in 1..Len(ids) |-> reviews[ids[k]]])
  /\ UNCHANGED <<bookings, inflight, decision, reviews, others>>

\* POST /reviews/<review_id>/flag
flag_review(r) ==
  /\ req' = r
  /\ IF ReviewNotFound(reviews, r.review_id)
       THEN /\ resp' = Response(404, "Review not found", None)
            /\ reviews' = reviews
     ELSE IF ~can_do_review_action(r, get_current_role(r), "flag",
                                   reviews[r.review_id].user_id)
       THEN /\ resp' = Response(403, "Forbidden", None)
            /\ reviews' = reviews
     ELSE /\ reviews' = [reviews EXCEPT ![r.review_id].is_flagged = TRUE]
          /\ resp' = Response(200, "", r.review_id)
  /\ UNCHANGED <<bookings, inflight, decision, others>>

CreateReview ==
  /\ req = NoRequest
  /\ \E r \in ReviewCreateRequests : create_review(r)

UpdateReview ==
  /\ req = NoRequest
  /\ \E r \in ReviewUpdateRequests : update_review(r)

DeleteReview ==
  /\ req = NoRequest
  /\ \E r \in ReviewDeleteRequests : delete_review(r)

GetReviewsForRoom ==
  /\ req = NoRequest
  /\ \E r \in ReviewListRequests : get_reviews_for_room(r)

FlagReview ==
  /\ req = NoRequest
  /\ \E r \in ReviewFlagRequests : flag_review(r)

NextReviews ==
  \/ CreateReview
  \/ UpdateReview
  \/ DeleteReview
  \/ GetReviewsForRoom
  \/ FlagReview
  \/ Respond

\* The Reviews service handling one request at a time.
SpecReviews == Init /\ [][NextReviews]_vars

\* -------------------------------------------- claims on the Reviews service

\* Review id is stored and not soft-deleted.
Live(rvs, id) == id \in 1..Len(rvs) /\ rvs[id].status = "ACTIVE"

\* C15: on an existing ACTIVE review, update and delete pass RBAC for admin
\* and moderator whoever owns the review, and for regular_user and
\* facility_manager iff the caller id is present and is the review's
\* user_id (a permitted delete is answered 200 and a permitted update 200, or
\* 400 for a bad rating or comment); auditor, service_account and unknown
\* roles, and the non-owners, are answered 403 and the review is unchanged.
C15_ReviewUpdateDeleteAuthorization ==
  [][ (/\ Handles({"review_update", "review_delete"})
       /\ Live(reviews, req'.review_id)) =>
        LET role == get_current_role(req')
            owner == reviews[req'.review_id].user_id
            permitted ==
              \/ role \in {"admin", "moderator"}
              \/ /\ role \in {"regular_user", "facility_manager"}
                 /\ req'.caller # None
                 /\ req'.caller = owner
        IN IF permitted
             THEN /\ resp'.code \in {200, 400}
                  /\ req'.op = "review_delete" =>
                       /\ resp'.code = 200
                       /\ reviews'[req'.review_id].status = "DELETED"
             ELSE resp' = Response(403, "Forbidden", None) /\ reviews' = reviews
    ]_vars

\* A moderator has deleted another user's review, which a facility manager
\* who is not its owner could not do.
C15_Witness ==
  /\ req.op = "review_delete"
  /\ req.role = "moderator"
  /\ req.review_id \in 1..Len(reviews)
  /\ req.caller # reviews[req.review_id].user_id
  /\ resp.code = 200
  /\ reviews[req.review_id].status = "DELETED"

\* The body of a create request carries the three required fields, with ids
\* that are integers.
ReviewBodyHasIds(r) ==
  /\ r.user_id \notin {None, Unparseable}
  /\ r.room_id \notin {None, Unparseable}
  /\ r.rating # Absent

\* C16 as stated: create is open only to admin, regular_user and
\* facility_manager; a regular_user or facility_manager is answered 403, and
\* nothing is stored, unless the caller id is present and equals the body's
\* user_id; a review created by such a caller is owned by the caller.
C16_ReviewCreateAuthorization ==
  [][ Handles({"review_create"}) =>
        LET role == get_current_role(req') IN
        /\ role \notin {"admin", "regular_user", "facility_manager"}
             => resp'.code = 403
        /\ (role \in {"regular_user", "facility_manager"} /\ ~ForSelf(req'))
             => resp'.code = 403
        /\ resp'.code = 403 => reviews' = reviews
        /\ (resp'.code = 201 /\ role \in {"regular_user", "facility_manager"})
             => reviews'[Len(reviews')].user_id = req'.caller ]_vars

\* C16, amended: as stated, except that the 403 of the self-only check is
\* promised only to a body that carries user_id, room_id and rating with
\* integer ids (any other body is answered 400 before the check, and stores
\* nothing either).
C16_ReviewCreateAuthorizationCompleteBody ==
  [][ Handles({"review_create"}) =>
        LET role == get_current_role(req') IN
        /\ role \notin {"admin", "regular_user", "facility_manager"}
             => resp'.code = 403
        /\ (role \in {"regular_user", "facility_manager"} /\ ~ForSelf(req'))
             => IF ReviewBodyHasIds(req') THEN resp'.code = 403
                ELSE resp'.code = 400
        /\ resp'.code \in {400, 403} => reviews' = reviews
        /\ (resp'.code = 201 /\ role \in {"regular_user", "facility_manager"})
             => reviews'[Len(reviews')].user_id = req'.caller ]_vars

\* A facility manager (caller 1) with a valid body for user 2 has been
\* answered 403, while the table holds a review of user 1.
C16_Witness ==
  /\ req.op = "review_create"
  /\ req.role = "facility_manager"
  /\ req.caller = 1
  /\ req.user_id = 2
  /\ req.rating = MAX_RATING
  /\ req.comment = MAX_COMMENT_LENGTH
  /\ resp.code = 403
  /\ Len(reviews) = 1
  /\ reviews[1].user_id = 1

\* is_flagged goes from false to true in this step only for the review that
\* an admin's or moderator's flag request names.
FlaggedOnlyByModeration ==
  \A i \in 1..Len(reviews') :
    (reviews'[i].is_flagged /\ (i > Len(reviews) \/ ~reviews[i].is_flagged)) =>
      /\ Handles({"review_flag"})
      /\ req'.review_id = i
      /\ get_current_role(req') \in {"admin", "moderator"}

\* C17 as stated: a flag request by a role other than admin and moderator is
\* answered 403 and leaves is_flagged unchanged; a flag request by admin or
\* moderator on an ACTIVE review sets is_flagged; is_flagged is set by
\* nothing else.
C17_FlagAuthorization ==
  [][ /\ Handles({"review_flag"}) =>
           IF get_current_role(req') \in {"admin", "moderator"}
             THEN Live(reviews, req'.review_id) =>
                    /\ resp'.code = 200
                    /\ reviews'[req'.review_id].is_flagged = TRUE
             ELSE resp'.code = 403 /\ reviews' = reviews
      /\ FlaggedOnlyByModeration ]_vars

\* C17, amended: as stated, for a review that is stored and not DELETED; a
\* flag request for any other id is answered 404, whatever the role, and
\* changes nothing.
C17_FlagAuthorizationOfLiveReview ==
  [][ /\ Handles({"review_flag"}) =>
           IF ~Live(reviews, req'.review_id)
             THEN resp'.code = 404 /\ reviews' = reviews
           ELSE IF get_current_role(req') \in {"admin", "moderator"}
             THEN /\ resp'.code = 200
                  /\ reviews'[req'.review_id].is_flagged = TRUE
           ELSE resp'.code = 403 /\ reviews' = reviews
      /\ FlaggedOnlyByModeration ]_vars

\* A moderator has flagged a review, and a regular user who owns an
\* unflagged review has been refused.
C17_Witness ==
  /\ req.op = "review_flag"
  /\ req.role = "regular_user"
  /\ req.review_id \in 1..Len(reviews)
  /\ req.caller = reviews[req.review_id].user_id
  /\ resp.code = 403
  /\ reviews[req.review_id].is_flagged = FALSE
  /\ \E i \in 1..Len(reviews) : reviews[i].is_flagged = TRUE

\* C19: a DELETED review is in no room listing; an update, delete or flag
\* request that names it is answered 404 whatever the role; and no step
\* changes any of its fields, so that it is never ACTIVE again.
C19_DeletedReviewIsGone ==
  [][ /\ (Handles({"review_list"}) /\ resp'.code = 200) =>
           \A k \in DOMAIN resp'.body :
             reviews[resp'.body[k].id].status # "DELETED"
      /\ (/\ Handles({"review_update", "review_delete", "review_flag"})
          /\ req'.review_id \in 1..Len(reviews)
          /\ reviews[req'.review_id].status = "DELETED") => resp'.code = 404
      /\ \A i \in 1..Len(reviews) :
           reviews[i].status = "DELETED" =>
             i <= Len(reviews') /\ reviews'[i] = reviews[i] ]_vars

\* An admin's update of a DELETED review has been answered 404, with a valid
\* rating that the review does not have.
C19_Witness ==
  /\ req.op = "review_update"
  /\ req.role = "admin"
  /\ req.review_id \in 1..Len(reviews)
  /\ reviews[req.review_id].status = "DELETED"
  /\ req.rating \in MIN_RATING..MAX_RATING
  /\ req.rating # reviews[req.review_id].rating
  /\ resp.code = 404

\* ------------------------------------- the mutating requests of both services

\* The Bookings and the Reviews service side by side. They share no table
\* and no handler of one reads the other's, so a behaviour of the two is a
\* behaviour of one next to a behaviour of the other; the guards keep the
\* two tables from being filled in the same behaviour.
NextMutations ==
  \/ reviews = <<>> /\ CreateBooking
  \/ reviews = <<>> /\ UpdateBooking
  \/ reviews = <<>> /\ CancelBooking
  \/ bookings = <<>> /\ CreateReview
  \/ bookings = <<>> /\ UpdateReview
  \/ bookings = <<>> /\ DeleteReview
  \/ bookings = <<>> /\ FlagReview
  \/ Respond

SpecMutations == Init /\ [][NextMutations]_vars

\* The RBAC action a mutating request asks for.
ActionOf(op) ==
  IF op \in {"create", "review_create"} THEN "create"
  ELSE IF op \in {"update", "review_update"} THEN "update"
  ELSE IF op = "cancel" THEN "cancel"
  ELSE IF op = "review_delete" THEN "delete"
  ELSE "flag"

\* The RBAC function of the service of request r denies its role the
\* action, for an object owned by owner.
DeniedFor(r, owner) ==
  IF r.op \in {"create", "update", "cancel"}
    THEN ~can_do_booking_action(r, get_current_role(r), ActionOf(r.op), owner, None)
    ELSE ~can_do_review_action(r, get_current_role(r), ActionOf(r.op), owner)

\* The caller role of request r is denied its action: for the stored object
\* the request names, or, when it names none that is stored (and for a
\* create), whoever the owner.
Denied(r) ==
  IF r.op \in {"update", "cancel"} /\ r.booking_id \in 1..Len(bookings)
    THEN DeniedFor(r, bookings[r.booking_id].user_id)
  ELSE IF r.op \in {"review_update", "review_delete", "review_flag"}
          /\ r.review_id \in 1..Len(reviews)
    THEN DeniedFor(r, reviews[r.review_id].user_id)
  ELSE \A owner \in {None} \cup UserIds : DeniedFor(r, owner)

\* The request names a booking that is not stored, or a review that is not
\* stored or is DELETED.
NamesNothing(r) ==
  \/ r.op \in {"update", "cancel"} /\ r.booking_id \notin 1..Len(bookings)
  \/ /\ r.op \in {"review_update", "review_delete", "review_flag"}
     /\ ~Live(reviews, r.review_id)

MutatingOps ==
  {"create", "update", "cancel", "review_create", "review_update",
   "review_delete", "review_flag"}

\* C23 as stated: a mutating request whose caller role is denied the action
\* is answered 403 whatever else is wrong with it: before the existence
\* check, the body validation and the conflict check.
C23_RbacFirst ==
  [][ (Handles(MutatingOps) /\ Denied(req')) => resp'.code = 403 ]_vars

\* C23, amended: a request that names a booking or review that is not there
\* (or a DELETED review) is answered 404 whatever the role; every other
\* mutating request whose caller role is denied the action is answered 403
\* Forbidden, whatever else is wrong with it, and changes nothing.
C23_RbacFirstOnceFound ==
  [][ Handles(MutatingOps) =>
        IF NamesNothing(req')
          THEN resp'.code = 404 /\ bookings' = bookings /\ reviews' = reviews
          ELSE Denied(req') =>
                 /\ resp'.code = 403
                 /\ resp'.error = "Forbidden"
                 /\ bookings' = bookings
                 /\ reviews' = reviews ]_vars

\* An auditor's update of a stored review with a rating out of bounds has
\* been answered 403 Forbidden.
C23_Witness ==
  /\ req.op = "review_update"
  /\ req.role = "auditor"
  /\ Live(reviews, req.review_id)
  /\ req.rating = MAX_RATING + 1
  /\ resp.code = 403
  /\ resp.error = "Forbidden"


\* =====================================================================
\* The rate limiter (common/utils/rate_limiter.py)
\* =====================================================================

\* now - ts <= window_seconds: a timestamp exactly one window old still counts.
InWindow_inclusive(ts, t, window_seconds) == t - ts <= window_seconds

\* The pruning test: now - ts < window_seconds.
InWindow(ts, t, window_seconds) == t - ts < window_seconds

\* rate_store[key] after "if key not in rate_store: rate_store[key] = []".
Stored(key) == IF key \in DOMAIN rate_store THEN rate_store[key] ELSE <<>>

\* rate_store[key] after the pruning list comprehension at time t.
Pruned(key, t) ==
  SelectSeq(Stored(key), LAMBDA ts : InWindow(ts, t, limits.window_seconds))

\* rate_store with key bound to timestamps.
Bind(key, timestamps) ==
  [k \in DOMAIN rate_store \cup {key} |->
     IF k = key THEN timestamps ELSE rate_store[k]]

\* dependency(): one call of the dependency built for key, at time t.
\* HTTPException 429 leaves the pruned list in the store; otherwise the
\* call's timestamp is appended.
dependency(key, t) ==
  /\ now' = t
  /\ req' = [NoRequest EXCEPT !.op = "rate_limited", !.key = key]
  /\ IF Len(Pruned(key, t)) >= limits.max_requests
       THEN /\ rate_store' = Bind(key, Pruned(key, t))
            /\ resp' = Response(429, "Too many requests. Try again later.", None)
            /\ accepted' = accepted
       ELSE /\ Len(accepted[key]) < MaxAccepted
            /\ rate_store' = Bind(key, Append(Pruned(key, t), t))
            /\ resp' = Response(200, "", None)
            /\ accepted' = [accepted EXCEPT ![key] = Append(@, t)]
  /\ UNCHANGED <<bookings, inflight, decision, reviews, rooms, users, limits>>

\* A call comes in at some time not before the previous call's.
RateLimitedCall == \E key \in Keys : \E t \in now..MaxClock : dependency(key, t)

\* The dependencies are built once, with any max_requests and window_seconds.
InitRate == \E l \in Limits : Start(l)

NextRate == RateLimitedCall

SpecRate == InitRate /\ [][NextRate]_vars

\* Calls for key let in before, whose time is less than a window before t.
RecentAccepted(key, t) ==
  {i \in 1..Len(accepted[key]) : t - accepted[key][i] < limits.window_seconds}

\* Every max_requests + 1 consecutive accepted calls of a key span at least
\* one window.
AtMostMaxPerWindow ==
  \A key \in Keys : \A i, j \in 1..Len(accepted[key]) :
    (i <= j /\ accepted[key][j] - accepted[key][i] < limits.window_seconds)
      => j - i + 1 <= limits.max_requests

\* C30: with calls at non-decreasing times, a call at time t for a key is let
\* in exactly when fewer than max_requests earlier accepted calls of that key
\* have a timestamp ts with t - ts < window_seconds; a call let in is recorded
\* at t, a rejected call (429) records nothing; hence no more than
\* max_requests calls of a key are let in within any span shorter than
\* window_seconds.
C30_SlidingWindow ==
  [][LET key == req'.key
         t == now'
     IN  /\ (resp'.code = 200) <=>
              (Cardinality(RecentAccepted(key, t)) < limits.max_requests)
         /\ resp'.code \in {200, 429}
         /\ resp'.code = 200 => accepted' = [accepted EXCEPT ![key] = Append(@, t)]
         /\ resp'.code = 429 =>
              /\ accepted' = accepted
              /\ resp'.error = "Too many requests. Try again later."
              /\ Len(rate_store'[key]) = Cardinality(RecentAccepted(key, t))
         /\ AtMostMaxPerWindow']_vars

\* A key has been let in, then rejected within the window, then let in again
\* once the window had passed: the last call was rejected and the key has two
\* accepted calls a full window apart.
C30_Witness ==
  /\ limits.max_requests = 1
  /\ limits.window_seconds = 2
  /\ accepted["login"] = <<0, 2>>
  /\ now = 3
  /\ req.key = "login"
  /\ resp.code = 429


\* =====================================================================
\* The Rooms service (rooms_service/routers.py)
\* =====================================================================

\* Room names and capacities of the request bodies. equipment and location
\* are stored and updated the way capacity is, and are left out.
RoomNames == {"Alpha", "Beta"}
Capacities == {4, 8}
\* RoomUpdate.available: "" stands for the field left out (None).
AvailableInputs == {"", "true", "false"}

\* The role of the user the bearer token resolves to; "" for a request whose
\* token is missing or invalid (CurrentUser answers 401).
RoomCallers == KnownRoles \cup {""}

Room(id, name, capacity, available) ==
  [id |-> id, name |-> name, capacity |-> capacity, available |-> available]

\* The integer primary key SQLite gives a new row: one more than the largest.
NextRoomId ==
  IF rooms = {} THEN 1
  ELSE (CHOOSE m \in {x.id : x \in rooms} : \A x \in rooms : x.id <= m) + 1

CreateRoomRequests ==
  {[NoRequest EXCEPT !.op = "create_room", !.role = ro, !.name = n,
                          !.capacity = c] :
     ro \in RoomCallers, n \in RoomNames, c \in Capacities}

UpdateRoomRequests ==
  {[NoRequest EXCEPT !.op = "update_room", !.role = ro, !.room_id = id,
                          !.name = n, !.capacity = c, !.available = a] :
     ro \in RoomCallers, id \in 1..MaxRooms, n \in RoomNames \cup {""},
     c \in Capacities \cup {None}, a \in AvailableInputs}

DeleteRoomRequests ==
  {[NoRequest EXCEPT !.op = "delete_room", !.role = ro, !.room_id = id] :
     ro \in RoomCallers, id \in 1..MaxRooms}

\* require_admin: TRUE when it raises 403, that is when user.role != "admin".
rooms_require_admin(role) == role # "admin"

\* The answer of the dependencies and of require_admin, before the handler's
\* own work: 401 from CurrentUser, 403 from require_admin, None to go on.
RoomGate(r) ==
  IF r.role = "" THEN Response(401, "Could not validate token", None)
  ELSE IF rooms_require_admin(r.role) THEN Response(403, "Admin privileges required", None)
  ELSE NoResponse

RoomById(id) == {x \in rooms : x.id = id}

\* POST /rooms/ : the new row takes the model's default available = True.
create_room(r) ==
  IF RoomGate(r) # NoResponse
    THEN resp' = RoomGate(r) /\ rooms' = rooms
  ELSE IF \E x \in rooms : x.name = r.name
    THEN resp' = Response(400, "Room already exists", None) /\ rooms' = rooms
  ELSE /\ Cardinality(rooms) < MaxRooms
       /\ rooms' = rooms \cup {Room(NextRoomId, r.name, r.capacity, TRUE)}
       /\ resp' = Response(200, "", NextRoomId)

\* PUT /rooms/{room_id} : assigns the fields present, then commits; a name
\* another room holds breaks the unique constraint and nothing is written.
update_room(r) ==
  IF RoomGate(r) # NoResponse
    THEN resp' = RoomGate(r) /\ rooms' = rooms
  ELSE IF RoomById(r.room_id) = {}
    THEN resp' = Response(404, "Room not found", None) /\ rooms' = rooms
  ELSE LET room == CHOOSE x \in rooms : x.id = r.room_id
           new == Room(room.id,
                       IF r.name # "" THEN r.name ELSE room.name,
                       IF r.capacity # None THEN r.capacity ELSE room.capacity,
                       IF r.available # "" THEN r.available = "true"
                                           ELSE room.available)
       IN  IF \E x \in rooms : x.id # room.id /\ x.name = new.name
             THEN resp' = Response(500, "Internal Server Error", None)
                  /\ rooms' = rooms
             ELSE /\ rooms' = (rooms \ {room}) \cup {new}
                  /\ resp' = Response(200, "", room.id)

\* DELETE /rooms/{room_id}
delete_room(r) ==
  IF RoomGate(r) # NoResponse
    THEN resp' = RoomGate(r) /\ rooms' = rooms
  ELSE IF RoomById(r.room_id) = {}
    THEN resp' = Response(404, "Room not found", None) /\ rooms' = rooms
  ELSE /\ rooms' = rooms \ RoomById(r.room_id)
       /\ resp' = Response(204, "", None)

RoomsFrame ==
  UNCHANGED <<bookings, inflight, decision, reviews, users, rate_store, now,
              accepted, limits>>

CreateRoom ==
  /\ req = NoRequest
  /\ \E r \in CreateRoomRequests : req' = r /\ create_room(r)
  /\ RoomsFrame

UpdateRoom ==
  /\ req = NoRequest
  /\ \E r \in UpdateRoomRequests : req' = r /\ update_room(r)
  /\ RoomsFrame

DeleteRoom ==
  /\ req = NoRequest
  /\ \E r \in DeleteRoomRequests : req' = r /\ delete_room(r)
  /\ RoomsFrame

NextRooms ==
  \/ CreateRoom
  \/ UpdateRoom
  \/ DeleteRoom
  \/ Respond

SpecRooms == Init /\ [][NextRooms]_vars

RoomOps == {"create_room", "update_room", "delete_room"}

\* C24: room management is open to administrators and facility managers:
\* create_room, update_room and delete_room are not refused for lack of
\* privileges when the authenticated user's role is admin or
\* facility_manager, and are answered 403 with the room set unchanged for
\* every other role.
C24_RoomManagementRoles ==
  [][Handles(RoomOps) /\ req'.role # "" =>
       IF req'.role \in {"admin", "facility_manager"}
         THEN resp'.code # 403
         ELSE resp'.code = 403 /\ rooms' = rooms]_vars


\* =====================================================================
\* The Users service (users_service/routers.py)
\* =====================================================================

\* The user id a bearer token carries; None for a request without a valid
\* token. A token outlives the account and the password it was issued for.
Tokens == (1..MaxUsers) \cup {None}
\* Optional body fields: "" stands for a field left out (or sent empty).
OptUsernames == Usernames \cup {""}
OptEmails == Emails \cup {""}
OptPasswords == Passwords \cup {""}

\* Bodies of /register may carry a role: UserCreate has no such field and
\* the value is dropped.
RegisterRequests ==
  {[NoRequest EXCEPT !.op = "register", !.username = u, !.email = e,
                          !.password = p, !.new_role = ro] :
     u \in Usernames, e \in Emails, p \in Passwords, ro \in UserRoles \cup {""}}

LoginRequests ==
  {[NoRequest EXCEPT !.op = "login", !.username = u, !.password = p] :
     u \in Usernames, p \in Passwords}

\* update_profile reads no token: caller is whoever sent the request.
UpdateProfileRequests ==
  {[NoRequest EXCEPT !.op = "update_profile", !.caller = c, !.user_id = id,
                          !.username = u, !.email = e, !.password = p] :
     c \in Tokens, id \in 1..MaxUsers, u \in OptUsernames, e \in OptEmails,
     p \in OptPasswords}

DeleteOwnAccountRequests ==
  {[NoRequest EXCEPT !.op = "delete_own_account", !.caller = c] : c \in Tokens}

AdminCreateUserRequests ==
  {[NoRequest EXCEPT !.op = "admin_create_user", !.caller = c, !.username = u,
                          !.email = e, !.password = p, !.new_role = ro] :
     c \in Tokens, u \in Usernames, e \in Emails, p \in Passwords,
     ro \in UserRoles}

AdminUpdateUserRequests ==
  {[NoRequest EXCEPT !.op = "admin_update_user", !.caller = c, !.user_id = id,
                          !.username = u, !.email = e, !.password = p] :
     c \in Tokens, id \in 1..MaxUsers, u \in OptUsernames, e \in OptEmails,
     p \in OptPasswords}

AdminDeleteUserRequests ==
  {[NoRequest EXCEPT !.op = "admin_delete_user", !.caller = c, !.user_id = id] :
     c \in Tokens, id \in 1..MaxUsers}

AdminUpdateRoleRequests ==
  {[NoRequest EXCEPT !.op = "admin_update_role", !.caller = c, !.user_id = id,
                          !.new_role = ro] :
     c \in Tokens, id \in 1..MaxUsers, ro \in UserRoles}

UserById(id) == {u \in users : u.id = id}

\* The integer primary key SQLite gives a new row: one more than the largest.
NextUserId ==
  IF users = {} THEN 1
  ELSE (CHOOSE m \in {u.id : u \in users} : \A u \in users : u.id <= m) + 1

\* The filter of register_user and admin_create_user:
\* (User.username == payload.username) | (User.email == payload.email).
ExistingUser(r) == {u \in users : u.username = r.username \/ u.email = r.email}

\* get_current_user: 401 for an invalid token, 404 when the user of the token
\* is gone, NoResponse when it returns the user.
CurrentUserError(r) ==
  IF r.caller = None THEN Response(401, "Could not validate token", None)
  ELSE IF UserById(r.caller) = {} THEN Response(404, "User not found", None)
  ELSE NoResponse

\* The user get_current_user returns.
CurrentUser(r) == CHOOSE u \in users : u.id = r.caller

\* A check that lets every authenticated user through.
require_admin_any_role(current_user) == FALSE

\* require_admin: TRUE when it raises 403, that is when
\* current_user.role != "admin".
require_admin(current_user) == current_user.role # "admin"

\* The answer of CurrentUser and require_admin before an admin handler's own
\* work.
AdminGate(r) ==
  IF CurrentUserError(r) # NoResponse THEN CurrentUserError(r)
  ELSE IF require_admin(CurrentUser(r))
    THEN Response(403, "Admin privileges required", None)
  ELSE NoResponse

\* The role register_user stores: role="regular_user".
RegisteredRole(r) == "regular_user"

\* The row after the assignments of update_profile / admin_update_user:
\* each field is assigned when the body's value is truthy.
WithProfile(user, r) ==
  [user EXCEPT
     !.username = IF r.username # "" THEN r.username ELSE @,
     !.email = IF r.email # "" THEN r.email ELSE @,
     !.hashed_password =
        IF r.password # "" THEN get_password_hash(r.password) ELSE @]

\* db.commit() of a changed row: the unique constraints on username and email
\* fail the commit (nothing is written, the server answers 500); otherwise
\* the row is replaced.
CommitUser(user, new, code) ==
  IF \E u \in users : u.id # user.id
                        /\ (u.username = new.username \/ u.email = new.email)
    THEN resp' = Response(500, "Internal Server Error", None) /\ users' = users
    ELSE users' = (users \ {user}) \cup {new}
         /\ resp' = Response(code, "", user.id)

\* POST /register
register_user(r) ==
  IF ExistingUser(r) # {}
    THEN resp' = Response(400, "Username or email already exists", None)
         /\ users' = users
  ELSE /\ Cardinality(users) < MaxUsers
       /\ NextUserId <= MaxUsers
       /\ users' = users \cup
            {[id |-> NextUserId, username |-> r.username, email |-> r.email,
              hashed_password |-> get_password_hash(r.password),
              role |-> RegisteredRole(r)]}
       /\ resp' = Response(200, "", NextUserId)

\* POST /login : the body of the answer is the id the token carries.
login(r) ==
  /\ users' = users
  /\ IF \E u \in users : u.username = r.username
                           /\ verify_password(r.password, u.hashed_password)
       THEN resp' = Response(200, "",
                      (CHOOSE u \in users : u.username = r.username).id)
       ELSE resp' = Response(400, "Incorrect username or password", None)

\* PUT /update/{user_id} : no dependency reads the caller's token.
update_profile(r) ==
  IF UserById(r.user_id) = {}
    THEN resp' = Response(404, "User not found", None) /\ users' = users
  ELSE LET user == CHOOSE u \in users : u.id = r.user_id
       IN  CommitUser(user, WithProfile(user, r), 200)

\* DELETE /me
delete_own_account(r) ==
  IF CurrentUserError(r) # NoResponse
    THEN resp' = CurrentUserError(r) /\ users' = users
  ELSE /\ users' = users \ UserById(r.caller)
       /\ resp' = Response(204, "", None)

\* POST /admin/users
admin_create_user(r) ==
  IF AdminGate(r) # NoResponse
    THEN resp' = AdminGate(r) /\ users' = users
  ELSE IF ExistingUser(r) # {}
    THEN resp' = Response(400, "User already exists", None) /\ users' = users
  ELSE /\ Cardinality(users) < MaxUsers
       /\ NextUserId <= MaxUsers
       /\ users' = users \cup
            {[id |-> NextUserId, username |-> r.username, email |-> r.email,
              hashed_password |-> get_password_hash(r.password),
              role |-> r.new_role]}
       /\ resp' = Response(200, "", NextUserId)

\* PUT /admin/users/{user_id}
admin_update_user(r) ==
  IF AdminGate(r) # NoResponse
    THEN resp' = AdminGate(r) /\ users' = users
  ELSE IF UserById(r.user_id) = {}
    THEN resp' = Response(404, "User not found", None) /\ users' = users
  ELSE LET user == CHOOSE u \in users : u.id = r.user_id
       IN  CommitUser(user, WithProfile(user, r), 200)

\* DELETE /admin/users/{user_id}
admin_delete_user(r) ==
  IF AdminGate(r) # NoResponse
    THEN resp' = AdminGate(r) /\ users' = users
  ELSE IF UserById(r.user_id) = {}
    THEN resp' = Response(404, "User not found", None) /\ users' = users
  ELSE /\ users' = users \ UserById(r.user_id)
       /\ resp' = Response(204, "", None)

\* PATCH /admin/users/{user_id}/role
admin_update_role(r) ==
  IF AdminGate(r) # NoResponse
    THEN resp' = AdminGate(r) /\ users' = users
  ELSE IF UserById(r.user_id) = {}
    THEN resp' = Response(404, "User not found", None) /\ users' = users
  ELSE LET user == CHOOSE u \in users : u.id = r.user_id
       IN  /\ users' = (users \ {user}) \cup {[user EXCEPT !.role = r.new_role]}
           /\ resp' = Response(200, "", user.id)

UsersFrame ==
  UNCHANGED <<bookings, inflight, decision, reviews, rooms, rate_store, now,
              accepted, limits>>

RegisterUser ==
  /\ req = NoRequest
  /\ \E r \in RegisterRequests : req' = r /\ register_user(r)
  /\ UsersFrame

Login ==
  /\ req = NoRequest
  /\ \E r \in LoginRequests : req' = r /\ login(r)
  /\ UsersFrame

UpdateProfile ==
  /\ req = NoRequest
  /\ \E r \in UpdateProfileRequests : req' = r /\ update_profile(r)
  /\ UsersFrame

DeleteOwnAccount ==
  /\ req = NoRequest
  /\ \E r \in DeleteOwnAccountRequests : req' = r /\ delete_own_account(r)
  /\ UsersFrame

AdminCreateUser ==
  /\ req = NoRequest
  /\ \E r \in AdminCreateUserRequests : req' = r /\ admin_create_user(r)
  /\ UsersFrame

AdminUpdateUser ==
  /\ req = NoRequest
  /\ \E r \in AdminUpdateUserRequests : req' = r /\ admin_update_user(r)
  /\ UsersFrame

AdminDeleteUser ==
  /\ req = NoRequest
  /\ \E r \in AdminDeleteUserRequests : req' = r /\ admin_delete_user(r)
  /\ UsersFrame

AdminUpdateRole ==
  /\ req = NoRequest
  /\ \E r \in AdminUpdateRoleRequests : req' = r /\ admin_update_role(r)
  /\ UsersFrame

NextUsers ==
  \/ RegisterUser
  \/ Login
  \/ UpdateProfile
  \/ DeleteOwnAccount
  \/ AdminCreateUser
  \/ AdminUpdateUser
  \/ AdminDeleteUser
  \/ AdminUpdateRole
  \/ Respond

SpecUsers == Init /\ [][NextUsers]_vars

\* C25: a PUT /users/update/{user_id} request changes the profile of user_id
\* only when it is issued by that same user: no request of another user, or
\* of an unauthenticated caller, changes the users table.
C25_UpdateOwnProfileOnly ==
  [][Handles({"update_profile"}) /\ users' # users =>
       req'.caller = req'.user_id]_vars


\* The role of the user a request's token resolves to; "" when it resolves to
\* nobody.
CallerRole(r) ==
  IF r.caller # None /\ UserById(r.caller) # {}
    THEN (CHOOSE u \in users : u.id = r.caller).role
    ELSE ""

\* Users of the next state that hold a role other than regular_user and were
\* not stored before.
NewPrivileged == {u \in users' : UserById(u.id) = {} /\ u.role # "regular_user"}

\* Users whose stored role differs in the next state.
RoleChanged ==
  {u \in users : \E v \in users' : v.id = u.id /\ v.role # u.role}

\* C26: register_user stores role regular_user whatever the body says; a
\* stored role changes only in an admin_update_role step and a user with
\* another role appears only in an admin_create_user step, and both are
\* answered 403, the table unchanged, when the authenticated caller's role is
\* not admin: a step whose caller is not an admin changes no role and adds no
\* user with a role other than regular_user.
C26_NoPrivilegeEscalation ==
  [][/\ Handles({"register"}) /\ resp'.code = 200 =>
          \A u \in users' \ users : u.role = "regular_user"
     /\ RoleChanged # {} =>
          req'.op = "admin_update_role" /\ CallerRole(req') = "admin"
     /\ NewPrivileged # {} =>
          req'.op = "admin_create_user" /\ CallerRole(req') = "admin"
     /\ (/\ Handles({"admin_update_role", "admin_create_user"})
         /\ CallerRole(req') \notin {"", "admin"}) =>
          resp'.code = 403 /\ users' = users
     /\ (Handles({"admin_update_role", "admin_create_user"})
         /\ CallerRole(req') = "") =>
          resp'.code \in {401, 404} /\ users' = users]_vars

\* A registered regular user asked admin_update_role to make themself admin
\* and was refused: the table still holds them as regular_user.
C26_Witness ==
  /\ req.op = "admin_update_role"
  /\ req.caller = 2
  /\ req.user_id = 2
  /\ req.new_role = "admin"
  /\ resp.code = 403
  /\ \E u \in users : u.id = 2 /\ u.role = "regular_user"

====
